---- MODULE Spec2Model ----
(***************************************************************************)
(* A model of the entity metadata and parameter-binding layer of           *)
(* Canyon-SQL:                                                             *)
(*   canyon_macros/src/lib.rs            canyon_managed, CanyonMapper      *)
(*   canyon_macros/src/query_operations/update.rs   generate_update_tokens *)
(*   canyon_crud/src/bounds.rs           AsAny, QueryParameters, IntoSql   *)
(* Characters are Unicode code points, identifiers and strings are         *)
(* sequences of code points.                                               *)
(***************************************************************************)
EXTENDS Integers, Sequences, FiniteSets, TLC

VARIABLES
    CANYON_REGISTER,  \* the static mut register: the Vec of type names
    structs,          \* the struct items canyon_managed has emitted, in call order
    held,             \* the descriptor a reader obtained by its last lookup
    vec_cap,          \* the capacity of the register's heap buffer
    vec_buf,          \* the identity of that buffer (0: none allocated)
    pc,               \* where the running canyon_managed stands in its push
    pending,          \* the identifier it is pushing
    seen,             \* what the reader read through the reference it holds
    ty,               \* the identifier handed to database_table_name_from_struct
    table_name,       \* its result (the empty string before the call)
    param,            \* a value used as a query parameter
    pg_out,           \* what as_postgres_param made of it
    sql_out,          \* what into_sql made of it
    entity,           \* an instance of an annotated struct
    call,             \* the statement asked for, with its arguments
    stmt,             \* the statement built, or the error
    row,              \* a row a query returned
    mapped,           \* what RowMapper::deserialize made of it
    response,         \* the rows the executor returned to find_by_id
    found,            \* what find_by_id made of them
    canyon_entity,    \* the struct declaration the enum generators are given
    field_enum,       \* the enum generate_enum_with_fields emitted
    value_enum        \* the enum generate_enum_with_fields_values emitted

regVars == <<CANYON_REGISTER, structs, held>>
vecVars == <<vec_cap, vec_buf, pc, pending, seen>>
tableVars == <<ty, table_name>>

paramVars == <<param, pg_out, sql_out>>
crudVars == <<entity, call, stmt>>
rowVars == <<row, mapped>>
registryVars == <<regVars, vecVars, tableVars>>
findVars == <<response, found>>
enumVars == <<canyon_entity, field_enum, value_enum>>
queryVars == <<paramVars, crudVars, rowVars, findVars, enumVars>>

vars == <<regVars, vecVars, tableVars, paramVars, crudVars, rowVars, findVars, enumVars>>

\* No descriptor, no result.
None == [kind |-> "none"]

\* The empty string: no identifier is empty, and no table name derived from one.
NoName == <<>>

(***************************************************************************)
(* Characters                                                              *)
(***************************************************************************)

\* 'A', 'Z', 'a', '_', '1' and the non-ASCII capital letter U+00C9.
Alphabet == {65, 90, 97, 95, 49, 201}

\* The characters an identifier may start with.
IdentStart == {65, 90, 97, 201}

\* The longest identifier drawn from Alphabet.
MaxNameLen == 3

\* "LeagueTable"
LeagueTable == <<76, 101, 97, 103, 117, 101, 84, 97, 98, 108, 101>>

\* "League"
League == <<76, 101, 97, 103, 117, 101>>

\* "Player"
Player == <<80, 108, 97, 121, 101, 114>>

StructNames ==
    {s \in UNION {[1..n -> Alphabet] : n \in 1..MaxNameLen} : s[1] \in IdentStart}
        \cup {LeagueTable, League, Player}

\* char::is_ascii_uppercase
is_ascii_uppercase(c) == c >= 65 /\ c <= 90

\* char::to_ascii_lowercase
to_ascii_lowercase(c) == IF is_ascii_uppercase(c) THEN c + 32 ELSE c

(***************************************************************************)
(* database_table_name_from_struct: the loop over struct_name.chars(),     *)
(* with its counter `index` and its accumulator `table_name`.              *)
(***************************************************************************)

RECURSIVE table_name_loop(_, _, _, _)
table_name_loop(struct_name, i, index, acc) ==
    IF i > Len(struct_name) THEN acc
    ELSE LET char == struct_name[i] IN
         IF index < 1
         THEN table_name_loop(struct_name, i + 1, index + 1,
                              Append(acc, to_ascii_lowercase(char)))
         ELSE IF is_ascii_uppercase(char)
              THEN table_name_loop(struct_name, i + 1, index,
                                   acc \o <<95, to_ascii_lowercase(char)>>)
              ELSE table_name_loop(struct_name, i + 1, index, Append(acc, char))

\* The same loop entered with the counter already past the first character.
table_name_first_char_skipped(name) == table_name_loop(name, 1, 1, <<>>)

database_table_name_from_struct(name) == table_name_loop(name, 1, 0, <<>>)

(***************************************************************************)
(* The table-name specification: one identifier, one call.                 *)
(***************************************************************************)

\* static mut CANYON_REGISTER: Vec<String> = Vec::new(), nothing looked up.
RegistryIdle ==
    /\ CANYON_REGISTER = <<>>
    /\ structs = <<>>
    /\ held = None
    /\ vec_cap = 0
    /\ vec_buf = 0
    /\ pc = "idle"
    /\ pending = None
    /\ seen = None

TableNameIdle ==
    /\ ty = League
    /\ table_name = NoName

ParamsIdle ==
    /\ param = None
    /\ pg_out = None
    /\ sql_out = None

CrudIdle ==
    /\ entity = None
    /\ call = None
    /\ stmt = None

RowIdle ==
    /\ row = None
    /\ mapped = None

FindIdle ==
    /\ response = <<>>
    /\ found = None

EnumsIdle ==
    /\ canyon_entity = None
    /\ field_enum = None
    /\ value_enum = None

InitTableName ==
    /\ RegistryIdle
    /\ ParamsIdle
    /\ CrudIdle
    /\ RowIdle
    /\ FindIdle
    /\ EnumsIdle
    /\ ty \in StructNames
    /\ table_name = NoName

DeriveTableName ==
    /\ table_name = NoName
    /\ table_name' = database_table_name_from_struct(ty)
    /\ UNCHANGED <<regVars, vecVars, ty, queryVars>>

NextTableName == DeriveTableName

SpecTableName == InitTableName /\ [][NextTableName]_vars

(***************************************************************************)
(* The Canyon register.  canyon_managed runs once per annotated struct: it *)
(* pushes the struct's identifier on CANYON_REGISTER and emits the struct  *)
(* item with the fields in the order of the declaration.                   *)
(***************************************************************************)

\* The identifiers of the annotated structs.
EntityNames == {League, Player}

\* The field declarations (identifier and type) a struct may carry.
FieldDecls ==
    { <<[ident |-> "id", ty |-> "i32"], [ident |-> "name", ty |-> "String"]>>,
      <<[ident |-> "name", ty |-> "String"], [ident |-> "id", ty |-> "i32"]>>,
      <<[ident |-> "id", ty |-> "i64"]>> }

\* The most annotated structs one build expands.
MaxRegister == 3

\* fields_with_types: (vis, ident, type) of every field, in declaration order.
fields_with_types(fields) == [i \in 1..Len(fields) |-> fields[i]]

Max(a, b) == IF a >= b THEN a ELSE b

\* RawVec::grow_amortized for one more element: the capacity doubles, and is at
\* least 4 for an element of the size of a String.
grow_amortized(cap) == Max(4, Max(2 * cap, cap + 1))

\* Vec::push on a full buffer: the buffer is reallocated, in place or moved to
\* a new allocation (the first allocation is always a new one).
Grown(moved) ==
    /\ vec_cap' = grow_amortized(vec_cap)
    /\ vec_buf' = IF vec_cap = 0 \/ moved THEN vec_buf + 1 ELSE vec_buf

\* Vec::push up to the write of the element.
Reserved ==
    IF Len(CANYON_REGISTER) = vec_cap
    THEN \E moved \in BOOLEAN : Grown(moved)
    ELSE UNCHANGED <<vec_cap, vec_buf>>

\* The item canyon_managed returns.
struct_tokens(name, fields) == [ty |-> name, fields |-> fields_with_types(fields)]

\* The register assigned instead of pushed to.
canyon_managed_assign(name, fields) ==
    /\ pc = "idle"
    /\ Len(CANYON_REGISTER) < MaxRegister
    /\ Reserved
    /\ CANYON_REGISTER' = <<name>>
    /\ structs' = <<struct_tokens(name, fields)>>
    /\ UNCHANGED <<held, pc, pending, seen, tableVars, queryVars>>

\* canyon_managed, run to its end with nothing else running.
canyon_managed(name, fields) ==
    /\ pc = "idle"
    /\ Len(CANYON_REGISTER) < MaxRegister
    /\ Reserved
    /\ CANYON_REGISTER' = Append(CANYON_REGISTER, name)
    /\ structs' = Append(structs, struct_tokens(name, fields))
    /\ UNCHANGED <<held, pc, pending, seen, tableVars, queryVars>>

\* The positions of the register that hold `name`.
Entries(name) == {i \in 1..Len(CANYON_REGISTER) : CANYON_REGISTER[i] = name}

Last(S) == CHOOSE i \in S : \A j \in S : j <= i

\* lookup(entity_name): the descriptor of the most recent registration of the
\* name, or None.
lookup(name) ==
    IF Entries(name) = {} THEN None
    ELSE [kind |-> "descriptor",
          entity_name |-> name,
          table_name |-> database_table_name_from_struct(name),
          fields |-> structs[Last(Entries(name))].fields]

\* table_name_for(entity_name)
table_name_for(name) ==
    IF Entries(name) = {} THEN [kind |-> "UnknownEntity"]
    ELSE [kind |-> "ok", table_name |-> database_table_name_from_struct(name)]

\* A reader looks a name up and keeps what it got; the register is only read.
Lookup(name) ==
    /\ held' = lookup(name)
    /\ UNCHANGED <<CANYON_REGISTER, structs, vecVars, tableVars, queryVars>>

Init ==
    /\ RegistryIdle
    /\ TableNameIdle
    /\ ParamsIdle
    /\ CrudIdle
    /\ RowIdle
    /\ FindIdle
    /\ EnumsIdle

Next ==
    \/ \E name \in EntityNames, fields \in FieldDecls : canyon_managed(name, fields)
    \/ \E name \in EntityNames : Lookup(name)

Spec == Init /\ [][Next]_vars

(***************************************************************************)
(* C1: one descriptor per registered name                                  *)
(***************************************************************************)

\* C1: the register holds exactly one entry per registered name (registering
\* a name again never adds a second entry for it), and a lookup of the name
\* yields the fields of its most recent registration.
C1_OneDescriptorPerName ==
    \A name \in EntityNames :
        /\ Cardinality(Entries(name)) <= 1
        /\ Entries(name) # {} => lookup(name).entity_name = name

(***************************************************************************)
(* C2: what is registered for a name stays as it is                        *)
(***************************************************************************)

\* The step registers `name` again with a field list other than the one lookup
\* returns for it.
ReRegisteredWithOtherFields(name) ==
    /\ Len(CANYON_REGISTER') = Len(CANYON_REGISTER) + 1
    /\ CANYON_REGISTER'[Len(CANYON_REGISTER')] = name
    /\ structs'[Len(structs')].fields # lookup(name).fields

\* C2 as stated: once a name is registered, the field order and the table name
\* lookup and table_name_for return for it are the same in every later state,
\* whatever operation follows.
C2_DescriptorFixed ==
    [][\A name \in EntityNames :
          Entries(name) # {} =>
              /\ lookup(name)' = lookup(name)
              /\ table_name_for(name)' = table_name_for(name)]_vars

\* C2 amended: once a name is registered, its table name is the same in every
\* later state, and so is the field order lookup returns for it, except across
\* a registration of that same name with a different field list.
C2_DescriptorFixedUnlessReRegistered ==
    [][\A name \in EntityNames :
          Entries(name) # {} =>
              /\ table_name_for(name)' = table_name_for(name)
              /\ lookup(name)' = lookup(name) \/ ReRegisteredWithOtherFields(name)]_vars

\* League was registered, then Player, then League again with the same fields,
\* and a reader holds League's descriptor.
C2_Witness ==
    /\ CANYON_REGISTER = <<League, Player, League>>
    /\ structs[1].fields = structs[3].fields
    /\ held = lookup(League)

(***************************************************************************)
(* The register under concurrent use.  CANYON_REGISTER is a static mut     *)
(* reached through `unsafe` with no lock, so a reader runs between the     *)
(* steps of a push: the check of the capacity, the reallocation, the write *)
(* of the element.  A reader holds a reference into the Vec's buffer; a    *)
(* read through a reference into a freed buffer yields any value.          *)
(***************************************************************************)

\* The most pushes of one run: the fifth is the first to reallocate.
MaxPushes == 5

\* The interleavings do not depend on the fields: one declaration.
ConcFieldDecls == {<<[ident |-> "id", ty |-> "i32"], [ident |-> "name", ty |-> "String"]>>}

\* canyon_managed reaches CANYON_REGISTER.push(ty.to_string()).
PushBegin(name, fields) ==
    /\ pc = "idle"
    /\ Len(CANYON_REGISTER) < MaxPushes
    /\ pending' = struct_tokens(name, fields)
    /\ pc' = IF Len(CANYON_REGISTER) = vec_cap THEN "grow" ELSE "write"
    /\ UNCHANGED <<regVars, vec_cap, vec_buf, seen, tableVars, queryVars>>

\* The push reallocates the full buffer.
PushGrow ==
    /\ pc = "grow"
    /\ \E moved \in BOOLEAN : Grown(moved)
    /\ pc' = "write"
    /\ UNCHANGED <<regVars, pending, seen, tableVars, queryVars>>

\* The push writes the element and the length; canyon_managed returns its item.
PushWrite ==
    /\ pc = "write"
    /\ CANYON_REGISTER' = Append(CANYON_REGISTER, pending.ty)
    /\ structs' = Append(structs, pending)
    /\ pc' = "idle"
    /\ pending' = None
    /\ UNCHANGED <<held, vec_cap, vec_buf, seen, tableVars, queryVars>>

\* A reader takes a reference to the most recent entry of a name.
ReaderLookup(name) ==
    /\ Entries(name) # {}
    /\ held' = [kind |-> "ref", buf |-> vec_buf, idx |-> Last(Entries(name)),
                entity_name |-> name]
    /\ seen' = None
    /\ UNCHANGED <<CANYON_REGISTER, structs, vec_cap, vec_buf, pc, pending, tableVars, queryVars>>

\* What a read of freed memory may yield.
Garbage == {[kind |-> "name", entity_name |-> n] : n \in EntityNames}
               \cup {[kind |-> "garbage"]}

\* The reader reads through the reference it holds.
ReaderDeref ==
    /\ held.kind = "ref"
    /\ IF held.buf = vec_buf
       THEN seen' = [kind |-> "name", entity_name |-> CANYON_REGISTER[held.idx]]
       ELSE seen' \in Garbage
    /\ UNCHANGED <<regVars, vec_cap, vec_buf, pc, pending, tableVars, queryVars>>

NextConc ==
    \/ \E name \in EntityNames, fields \in ConcFieldDecls : PushBegin(name, fields)
    \/ PushGrow
    \/ PushWrite
    \/ \E name \in EntityNames : ReaderLookup(name)
    \/ ReaderDeref

SpecConc == Init /\ [][NextConc]_vars

(***************************************************************************)
(* C3: readers during a registration                                       *)
(***************************************************************************)

\* C3: a reader that holds a descriptor obtained by an earlier lookup reads the
\* same descriptor through it while and after a registration runs, and never
\* a partially written or foreign one.
C3_HeldDescriptorUnchanged ==
    (held.kind = "ref" /\ seen # None) =>
        seen = [kind |-> "name", entity_name |-> held.entity_name]

(***************************************************************************)
(* C4: the derived table name                                              *)
(***************************************************************************)

\* char::is_uppercase and char::to_lowercase on the characters of Alphabet:
\* U+00C9 is an uppercase letter whose lowercase form is U+00E9.
is_uppercase(c) == is_ascii_uppercase(c) \/ c = 201

to_lowercase(c) == IF c = 201 THEN 233 ELSE to_ascii_lowercase(c)

RECURSIVE Flatten(_)
Flatten(pieces) ==
    IF pieces = <<>> THEN <<>> ELSE Head(pieces) \o Flatten(Tail(pieces))

\* The snake-case transform as the specification words it, for a given notion
\* of "uppercase" and "lowercase form".
SnakeCase(name, IsUpper(_), Lower(_)) ==
    Flatten([i \in 1..Len(name) |->
                IF i = 1 THEN <<Lower(name[1])>>
                ELSE IF IsUpper(name[i]) THEN <<95, Lower(name[i])>>
                ELSE <<name[i]>>])

\* C4 as stated: the table name derived for an entity name is the name with its
\* first character lowercased, every later uppercase character replaced by '_'
\* and its lowercase form, and every other character copied.
C4_SnakeCaseAnyUppercase ==
    table_name # NoName => table_name = SnakeCase(ty, is_uppercase, to_lowercase)

\* C4 amended: the same transform where "uppercase" means ASCII uppercase (A-Z)
\* and "lowercased" means ASCII lowercased; any other character, a non-ASCII
\* capital included, is copied unchanged.
C4_SnakeCaseAscii ==
    table_name # NoName =>
        table_name = SnakeCase(ty, is_ascii_uppercase, to_ascii_lowercase)

\* "LeagueTable" has been turned into "league_table".
C4_Witness ==
    /\ ty = LeagueTable
    /\ table_name = <<108, 101, 97, 103, 117, 101, 95, 116, 97, 98, 108, 101>>

(***************************************************************************)
(* Query parameters (bounds.rs).  A value is its static type and its       *)
(* payload: `int` for the integer types, `str` for the string types.       *)
(***************************************************************************)

\* The largest magnitude of the small integers drawn as payloads.
MaxAbsInt == 3

IntSamples == (-MaxAbsInt..MaxAbsInt) \cup {-2147483647, 2147483647}

StrSamples == {"", "Foo", "Bar", "a'b"}

\* The types QueryParameters is implemented for.
ParamTypes == {"i32", "i64", "String", "&String"}

IntValue(t, n) == [ty |-> t, int |-> n, str |-> ""]

StrValue(t, x) == [ty |-> t, int |-> 0, str |-> x]

ParamValues ==
    {IntValue(t, n) : t \in {"i32", "i64"}, n \in IntSamples}
        \cup {StrValue(t, x) : t \in {"String", "&String"}, x \in StrSamples}

\* self.as_any() inside the impls of QueryParameters: the type behind the
\* &dyn Any.  AsAny has no impl for &String, so the call on a &&String
\* auto-dereferences to the impl for String.
as_any(v) ==
    [type_id |-> IF v.ty = "&String" THEN "String" ELSE v.ty, value |-> v]

\* <dyn Any>::downcast_ref::<T>
downcast_ref(any, T) ==
    IF any.type_id = T THEN [kind |-> "Some", value |-> any.value] ELSE None

\* The type each impl of as_postgres_param asks downcast_ref for.
requested_type(t) == IF t = "&String" THEN "&str" ELSE t

BadConversion == [kind |-> "panic", message |-> "Bad conversion of parameters"]

\* QueryParameters::as_postgres_param
as_postgres_param(v) ==
    LET b == downcast_ref(as_any(v), requested_type(v.ty)) IN
    IF b # None THEN [kind |-> "ok", value |-> b.value] ELSE BadConversion

\* (&*self).as_any() on a &dyn QueryParameters: the impl for
\* &dyn QueryParameters<'static>, which hands out `&self`, a reference to the
\* reference, whatever the value behind it.
as_any_dyn(v) == [type_id |-> "&&dyn QueryParameters", value |-> v]

\* A match arm whose pattern is a bare identifier (`String`, `i32`: no constant
\* of that name is in scope) binds the scrutinee and matches every value.
ident_pattern_matches(pattern, scrutinee) == TRUE

Todo == [kind |-> "panic", message |-> "not yet implemented"]

\* IntoSql for &dyn QueryParameters: into_sql
into_sql(v) ==
    LET any == as_any_dyn(v) IN
    IF ident_pattern_matches("String", any.type_id)
    THEN LET d == downcast_ref(any, "String") IN
         IF d # None
         THEN [kind |-> "ColumnData::String", int |-> 0, str |-> d.value.str]
         ELSE Todo
    ELSE IF ident_pattern_matches("i32", any.type_id)
    THEN LET d == downcast_ref(any, "i32") IN
         IF d # None
         THEN [kind |-> "ColumnData::I32", int |-> d.value.int, str |-> ""]
         ELSE Todo
    ELSE Todo

InitParams ==
    /\ RegistryIdle
    /\ TableNameIdle
    /\ CrudIdle
    /\ RowIdle
    /\ FindIdle
    /\ EnumsIdle
    /\ param \in ParamValues
    /\ pg_out = None
    /\ sql_out = None

AsPostgresParam ==
    /\ pg_out = None
    /\ pg_out' = as_postgres_param(param)
    /\ UNCHANGED <<registryVars, param, sql_out, crudVars, rowVars, findVars, enumVars>>

IntoSql ==
    /\ sql_out = None
    /\ sql_out' = into_sql(param)
    /\ UNCHANGED <<registryVars, param, pg_out, crudVars, rowVars, findVars, enumVars>>

NextParams == AsPostgresParam \/ IntoSql

SpecParams == InitParams /\ [][NextParams]_vars

(***************************************************************************)
(* C5: a wrapped value is recovered or a TypeMismatch is returned          *)
(***************************************************************************)

\* C5: recovering a value through the type-erased interface returns the value
\* when the requested type is the value's own, and a TypeMismatch error value
\* otherwise; it never panics, for strings held by reference either.
C5_UnwrapNeverPanics ==
    pg_out # None =>
        IF requested_type(param.ty) = as_any(param).type_id
        THEN pg_out = [kind |-> "ok", value |-> param]
        ELSE pg_out.kind = "TypeMismatch"

(***************************************************************************)
(* C6: the backend value of an envelope                                    *)
(***************************************************************************)

\* The SQL Server value of a parameter's own kind, carrying its value.
ColumnDataOf(v) ==
    CASE v.ty = "i32" -> [kind |-> "ColumnData::I32", int |-> v.int, str |-> ""]
      [] v.ty = "i64" -> [kind |-> "ColumnData::I64", int |-> v.int, str |-> ""]
      [] OTHER -> [kind |-> "ColumnData::String", int |-> 0, str |-> v.str]

\* C6: the conversion to a backend value is total for both backends and gives
\* every value the backend value of its own kind with the same content (i32
\* to the 32-bit integer, i64 to the 64-bit integer, strings to the string).
C6_BackendValueOfOwnKind ==
    /\ sql_out # None => sql_out = ColumnDataOf(param)
    /\ pg_out # None => pg_out = [kind |-> "ok", value |-> param]

(***************************************************************************)
(* Instances of annotated structs, and what the generated update() hands   *)
(* to __update (update.rs).                                                *)
(***************************************************************************)

\* The values a field of a given type may hold.
FieldSamples(t) ==
    IF t \in {"i32", "i64"} THEN {IntValue(t, 7), IntValue(t, 8)}
    ELSE {StrValue(t, "Foo"), StrValue(t, "Bar")}

AllFieldSamples == UNION {FieldSamples(t) : t \in {"i32", "i64", "String"}}

Idents(fields) == {fields[i].ident : i \in 1..Len(fields)}

EntityInstances ==
    UNION {
        { [ty |-> name, fields |-> fields, self |-> self] :
            self \in { f \in [Idents(fields) -> AllFieldSamples] :
                         \A i \in 1..Len(fields) :
                             f[fields[i].ident] \in FieldSamples(fields[i].ty) } }
        : name \in EntityNames, fields \in FieldDecls }

\* macro_data.get_struct_fields(): the identifiers of the fields, in order.
get_struct_fields(e) == [i \in 1..Len(e.fields) |-> e.fields[i].ident]

\* macro_data.get_struct_fields_as_strings(): the same names, as one string
\* (here: its items).
get_struct_fields_as_strings(e) == get_struct_fields(e)

Reverse(seq) == [i \in 1..Len(seq) |-> seq[Len(seq) + 1 - i]]

\* The values taken in the reverse of the declared order.
update_values_reversed(e) ==
    LET fields == Reverse(get_struct_fields(e)) IN
    [i \in 1..Len(fields) |-> e.self[fields[i]]]

\* update_values: &self.#ident for every field, in order.
update_values(e) ==
    LET fields == get_struct_fields(e) IN
    [i \in 1..Len(fields) |-> e.self[fields[i]]]

\* The arguments with the column names in the reverse of the declared order.
generate_update_tokens_columns_reversed(e) ==
    [table_name |-> database_table_name_from_struct(e.ty),
     column_names |-> Reverse(get_struct_fields_as_strings(e)),
     values |-> update_values(e)]

\* generate_update_tokens: the arguments of the __update call in update().
generate_update_tokens(e) ==
    [table_name |-> database_table_name_from_struct(e.ty),
     column_names |-> get_struct_fields_as_strings(e),
     values |-> update_values(e)]

(***************************************************************************)
(* The statement builder: insert, update, filter_in over a table name and  *)
(* (name, value) pairs; placeholders are numbered from 1.                  *)
(***************************************************************************)

\* The longest value sequence handed to filter_in.
MaxIn == 3

InSamples == {IntValue("i32", 1), IntValue("i32", 2), IntValue("i32", 3)}

InValues == UNION {[1..n -> InSamples] : n \in 0..MaxIn}

field_values(tokens) ==
    [i \in 1..Len(tokens.column_names) |->
        [name |-> tokens.column_names[i], value |-> tokens.values[i]]]

value_of(fvs, name) == fvs[CHOOSE i \in 1..Len(fvs) : fvs[i].name = name].value

insert(table, fvs) ==
    [kind |-> "statement", op |-> "insert", table |-> table,
     columns |-> [i \in 1..Len(fvs) |-> fvs[i].name],
     placeholders |-> [i \in 1..Len(fvs) |-> i],
     params |-> [i \in 1..Len(fvs) |-> fvs[i].value]]

update(table, fvs, pk, pk_value) ==
    LET nonkey == SelectSeq(fvs, LAMBDA fv : fv.name # pk) IN
    [kind |-> "statement", op |-> "update", table |-> table,
     set |-> [i \in 1..Len(nonkey) |-> [column |-> nonkey[i].name, placeholder |-> i]],
     where |-> [column |-> pk, placeholder |-> Len(nonkey) + 1],
     params |-> [i \in 1..Len(nonkey) |-> nonkey[i].value] \o <<pk_value>>]

EmptyInClause == [kind |-> "error", error |-> "EmptyInClause"]

\* filter_in without the check of the value sequence.
filter_in_unchecked(table, column, values) ==
    [kind |-> "statement", op |-> "filter_in", table |-> table, column |-> column,
     placeholders |-> [i \in 1..Len(values) |-> i],
     params |-> values]

filter_in(table, column, values) ==
    IF values = <<>> THEN EmptyInClause
    ELSE [kind |-> "statement", op |-> "filter_in", table |-> table, column |-> column,
          placeholders |-> [i \in 1..Len(values) |-> i],
          params |-> values]

InitCrud ==
    /\ RegistryIdle
    /\ TableNameIdle
    /\ ParamsIdle
    /\ RowIdle
    /\ FindIdle
    /\ EnumsIdle
    /\ entity \in EntityInstances
    /\ call = None
    /\ stmt = None

InsertEntity ==
    LET tokens == generate_update_tokens(entity) IN
    /\ call' = [kind |-> "insert"]
    /\ stmt' = insert(tokens.table_name, field_values(tokens))
    /\ UNCHANGED <<registryVars, paramVars, entity, rowVars, findVars, enumVars>>

UpdateEntity(pk) ==
    LET tokens == generate_update_tokens(entity) IN
    /\ call' = [kind |-> "update", pk |-> pk]
    /\ stmt' = update(tokens.table_name, field_values(tokens), pk,
                      value_of(field_values(tokens), pk))
    /\ UNCHANGED <<registryVars, paramVars, entity, rowVars, findVars, enumVars>>

FilterIn(column, values) ==
    /\ call' = [kind |-> "filter_in", column |-> column, values |-> values]
    /\ stmt' = filter_in(database_table_name_from_struct(entity.ty), column, values)
    /\ UNCHANGED <<registryVars, paramVars, entity, rowVars, findVars, enumVars>>

NextCrud ==
    \/ InsertEntity
    \/ \E pk \in Idents(entity.fields) : UpdateEntity(pk)
    \/ \E column \in Idents(entity.fields), values \in InValues : FilterIn(column, values)

SpecCrud == InitCrud /\ [][NextCrud]_vars

(***************************************************************************)
(* C7: placeholder i is bound to the i-th value                            *)
(***************************************************************************)

Position(fields, ident) == CHOOSE j \in 1..Len(fields) : fields[j].ident = ident

C9_EmptyInRejected ==
    (call.kind = "filter_in" /\ call.values = <<>>) =>
        stmt = [kind |-> "error", error |-> "EmptyInClause"]

\* filter_in was called with no values.
C9_Witness ==
    /\ call.kind = "filter_in"
    /\ call.values = <<>>
    /\ stmt.kind = "error"

(***************************************************************************)
(* The row mapper the CanyonMapper derive generates (lib.rs): one          *)
(* row.try_get(name).expect(..) per field, in the order of the fields.     *)
(***************************************************************************)

Columns == {"id", "name"}

CellSamples == {IntValue("i32", 7), IntValue("i64", 7), StrValue("String", "Foo")}

\* A row: the columns it has, each with a cell.
Rows == UNION {[S -> CellSamples] : S \in SUBSET Columns}

\* Row::try_get::<T>(name): an error when the row has no such column or the
\* cell is not of the type the field has.
try_get(r, column, T) ==
    IF column \notin DOMAIN r THEN [kind |-> "Err", error |-> "column not found"]
    ELSE IF r[column].ty # T THEN [kind |-> "Err", error |-> "type mismatch"]
    ELSE [kind |-> "Ok", value |-> r[column]]

\* filter_fields: (vis, ident) of every field, in declaration order.
filter_fields(fields) == [i \in 1..Len(fields) |-> fields[i].ident]

\* RowMapper::deserialize: the struct literal evaluates its fields in order,
\* and the first try_get that fails makes expect panic.
deserialize(r, e) ==
    LET idents == filter_fields(e.fields)
        cells == [i \in 1..Len(idents) |-> try_get(r, idents[i], e.fields[i].ty)]
        failed == {i \in 1..Len(idents) : cells[i].kind = "Err"}
    IN
    IF failed = {}
    THEN [kind |-> "ok",
          value |-> [ty |-> e.ty, fields |-> e.fields,
                     self |-> [ident \in Idents(e.fields) |-> r[ident]]]]
    ELSE [kind |-> "panic",
          message |-> "Failed to retrieve the field",
          field |-> idents[CHOOSE i \in failed : \A j \in failed : i <= j]]

InitRow ==
    /\ RegistryIdle
    /\ TableNameIdle
    /\ ParamsIdle
    /\ FindIdle
    /\ EnumsIdle
    /\ entity \in EntityInstances
    /\ call = None
    /\ stmt = None
    /\ row \in Rows
    /\ mapped = None

Deserialize ==
    /\ mapped = None
    /\ mapped' = deserialize(row, entity)
    /\ UNCHANGED <<registryVars, paramVars, crudVars, row, findVars, enumVars>>

NextRow == Deserialize

SpecRow == InitRow /\ [][NextRow]_vars

(***************************************************************************)
(* C10: a row maps to a whole entity or to an error value                  *)
(***************************************************************************)

\* The fields of the entity the row cannot satisfy, by position.
Unsatisfied ==
    {i \in 1..Len(entity.fields) :
        try_get(row, entity.fields[i].ident, entity.fields[i].ty).kind = "Err"}

\* C10: mapping a row yields an entity only when every declared field is found
\* by name and converts to its kind; otherwise it yields the error value
\* MissingColumn(name), or ColumnTypeMismatch, for the first such field in
\* declared order, and it never aborts.
C10_RowMapsOrFails ==
    mapped # None =>
        IF Unsatisfied = {}
        THEN /\ mapped.kind = "ok"
             /\ \A ident \in Idents(entity.fields) : mapped.value.self[ident] = row[ident]
        ELSE LET first == CHOOSE i \in Unsatisfied : \A j \in Unsatisfied : i <= j
                 ident == entity.fields[first].ident
             IN
             mapped = [kind |-> "error",
                       error |-> IF ident \in DOMAIN row THEN "ColumnTypeMismatch"
                                 ELSE "MissingColumn",
                       column |-> ident]

(***************************************************************************)
(* find_by_id, as the CanyonMapper derive generates it (lib.rs): the rows  *)
(* the executor returned are mapped by as_response and the first one is    *)
(* indexed and cloned.                                                     *)
(***************************************************************************)

\* The most rows a query by id returns.
MaxRows == 2

\* What the executor may return: no row when no row has the id.
Responses == UNION {[1..n -> Rows] : n \in 0..MaxRows}

\* as_response::<T>(): every row through RowMapper::deserialize, in order; a
\* panic of deserialize ends the call.
as_response(rs, e) ==
    LET items == [i \in 1..Len(rs) |-> deserialize(rs[i], e)]
        panicked == {i \in 1..Len(rs) : items[i].kind = "panic"}
    IN
    IF panicked # {}
    THEN items[CHOOSE i \in panicked : \A j \in panicked : i <= j]
    ELSE [kind |-> "ok", value |-> [i \in 1..Len(rs) |-> items[i].value]]

IndexOutOfBounds == [kind |-> "panic", message |-> "index out of bounds"]

\* find_by_id: as_response::<T>()[0].clone()
find_by_id(rs, e) ==
    LET all == as_response(rs, e) IN
    IF all.kind = "panic" THEN all
    ELSE IF Len(all.value) = 0 THEN IndexOutOfBounds
    ELSE [kind |-> "ok", value |-> all.value[1]]

InitFind ==
    /\ RegistryIdle
    /\ TableNameIdle
    /\ ParamsIdle
    /\ RowIdle
    /\ EnumsIdle
    /\ entity \in EntityInstances
    /\ call = None
    /\ stmt = None
    /\ response \in Responses
    /\ found = None

FindById ==
    /\ found = None
    /\ found' = find_by_id(response, entity)
    /\ UNCHANGED <<registryVars, paramVars, crudVars, rowVars, response, enumVars>>

NextFind == FindById

SpecFind == InitFind /\ [][NextFind]_vars

(***************************************************************************)
(* C11: failures reach the caller as error values                          *)
(***************************************************************************)

\* C11: every failure reaches the caller as an error value and none ends the
\* process: find_by_id yields an entity or an error value, and an error value
\* when no row has the id.
C11_FailuresAreErrorValues ==
    found # None =>
        /\ found.kind \in {"ok", "error"}
        /\ response = <<>> => found.kind = "error"

(***************************************************************************)
(* The enums generated for an entity (manager_builder.rs): <Struct>Field,  *)
(* one variant per field, with FieldIdentifier, and <Struct>FieldValue,    *)
(* one variant per field carrying a value, with FieldValueIdentifier.      *)
(***************************************************************************)

\* The most fields an entity declares.
MaxFields == 3

\* The fields an entity may declare; a struct declares an identifier once.
FieldPool ==
    { [ident |-> "id", ty |-> "i32"],
      [ident |-> "name", ty |-> "String"],
      [ident |-> "opt", ty |-> "Option<String>"] }

Declarations ==
    UNION { { fields \in [1..n -> FieldPool] :
                \A i, j \in 1..n : fields[i].ident = fields[j].ident => i = j }
            : n \in 1..MaxFields }

\* The parsed entity: its name and its fields in declaration order.
CanyonEntities ==
    { [struct_name |-> name, fields |-> fields] :
        name \in EntityNames, fields \in Declarations }

\* "Field" and "FieldValue"
FieldSuffix == <<70, 105, 101, 108, 100>>
FieldValueSuffix == FieldSuffix \o <<86, 97, 108, 117, 101>>

\* stringify!(ident): the text of the identifier token.
stringify(token) == token.ident

\* One variant, named as the field, per field, in the order of the fields.
get_fields_as_enum_variants(e) ==
    [i \in 1..Len(e.fields) |-> [ident |-> e.fields[i].ident]]

\* One arm Enum::field => stringify!(field) per field.
create_match_arm_for_get_variant_as_str(e, enum_name) ==
    [i \in 1..Len(e.fields) |->
        [enum |-> enum_name, variant |-> e.fields[i].ident,
         result |-> stringify([ident |-> e.fields[i].ident])]]

\* One arm Enum::field => stringify!(field).to_string() per field.
create_match_arm_for_get_variant_as_string(e, enum_name) ==
    [i \in 1..Len(e.fields) |->
        [enum |-> enum_name, variant |-> e.fields[i].ident,
         result |-> stringify([ident |-> e.fields[i].ident])]]

\* One variant field(&'a Type) per field, in the order of the fields.
get_fields_as_enum_variants_with_value(e) ==
    [i \in 1..Len(e.fields) |->
        [ident |-> e.fields[i].ident, ty |-> e.fields[i].ty]]

\* One arm Enum::field(v) => (stringify!(field), v) per field.
create_match_arm_for_relate_fields_with_values(e, enum_name) ==
    [i \in 1..Len(e.fields) |->
        [enum |-> enum_name, variant |-> e.fields[i].ident,
         result |-> stringify([ident |-> e.fields[i].ident])]]

\* The enum with its variants listed in the reverse of the order of the fields.
generate_enum_with_fields_reversed(e) ==
    LET enum_name == e.struct_name \o FieldSuffix IN
    [enum_name |-> enum_name,
     variants |-> Reverse(get_fields_as_enum_variants(e)),
     as_str |-> create_match_arm_for_get_variant_as_str(e, enum_name),
     field_name_as_str |-> create_match_arm_for_get_variant_as_string(e, enum_name)]

generate_enum_with_fields(e) ==
    LET enum_name == e.struct_name \o FieldSuffix
        fields_names == get_fields_as_enum_variants(e)
        match_arms_str == create_match_arm_for_get_variant_as_str(e, enum_name)
        match_arms == create_match_arm_for_get_variant_as_string(e, enum_name)
    IN
    [enum_name |-> enum_name,
     variants |-> fields_names,
     as_str |-> match_arms_str,
     field_name_as_str |-> match_arms]

generate_enum_with_fields_values(e) ==
    LET enum_name == e.struct_name \o FieldValueSuffix
        fields_names == get_fields_as_enum_variants_with_value(e)
        match_arms == create_match_arm_for_relate_fields_with_values(e, enum_name)
    IN
    [enum_name |-> enum_name,
     variants |-> fields_names,
     value |-> match_arms]

\* match: the result of the first arm whose pattern is the variant.
match_arm(arms, variant) ==
    LET hits == {i \in 1..Len(arms) : arms[i].variant = variant.ident} IN
    IF hits = {} THEN None
    ELSE [kind |-> "some",
          result |-> arms[CHOOSE i \in hits : \A j \in hits : i <= j].result]

InitEnums ==
    /\ RegistryIdle
    /\ TableNameIdle
    /\ ParamsIdle
    /\ CrudIdle
    /\ RowIdle
    /\ FindIdle
    /\ canyon_entity \in CanyonEntities
    /\ field_enum = None
    /\ value_enum = None

GenerateEnumWithFields ==
    /\ field_enum = None
    /\ field_enum' = generate_enum_with_fields(canyon_entity)
    /\ UNCHANGED <<registryVars, paramVars, crudVars, rowVars, findVars,
                   canyon_entity, value_enum>>

GenerateEnumWithFieldsValues ==
    /\ value_enum = None
    /\ value_enum' = generate_enum_with_fields_values(canyon_entity)
    /\ UNCHANGED <<registryVars, paramVars, crudVars, rowVars, findVars,
                   canyon_entity, field_enum>>

NextEnums ==
    \/ GenerateEnumWithFields
    \/ GenerateEnumWithFieldsValues

SpecEnums == InitEnums /\ [][NextEnums]_vars

(***************************************************************************)
(* C12: both views list the declared fields, once each, in order           *)
(***************************************************************************)

VariantNames(enum) == [i \in 1..Len(enum.variants) |-> enum.variants[i].ident]

DeclaredNames(e) == [i \in 1..Len(e.fields) |-> e.fields[i].ident]

\* C12: the variants of the Field enum and of the FieldValue enum are the
\* declared fields, each exactly once and in the order of the declaration, and
\* the name the FieldValue enum yields for a field is the name the Field enum
\* yields for it, by as_str and by field_name_as_str.
C12_ViewsListDeclaredFields ==
    /\ field_enum # None =>
           VariantNames(field_enum) = DeclaredNames(canyon_entity)
    /\ value_enum # None =>
           VariantNames(value_enum) = DeclaredNames(canyon_entity)
    /\ (field_enum # None /\ value_enum # None) =>
           \A i \in 1..Len(canyon_entity.fields) :
               LET name == match_arm(value_enum.value, value_enum.variants[i]) IN
               /\ name # None
               /\ name = match_arm(field_enum.as_str, field_enum.variants[i])
               /\ name = match_arm(field_enum.field_name_as_str,
                                   field_enum.variants[i])

\* Both enums are generated for an entity of three fields declared in an order
\* that is not the alphabetical one.
C12_Witness ==
    /\ field_enum # None
    /\ value_enum # None
    /\ DeclaredNames(canyon_entity) = <<"name", "opt", "id">>
    /\ VariantNames(value_enum) = <<"name", "opt", "id">>

====
